---- MODULE Spec2Model ----
(***************************************************************************)
(* A model of train.py: the adapter-disabled proxy                         *)
(* (ModelWithDisabledAdapter), the entry point main (config validation,    *)
(* policy / reference construction, checkpoint restoration, launch) and    *)
(* the per-rank worker body worker_main.                                   *)
(***************************************************************************)
EXTENDS Integers, Sequences, FiniteSets, TLC

VARIABLES
    config,           \* the resolved DictConfig main receives
    device_count,     \* torch.cuda.device_count()
    pc,               \* main's position
    err,              \* the exception main ended with ("none": no exception)
    models,           \* every model object constructed so far, by identity
    policy,           \* main's local `policy` (an identity, 0: unbound)
    reference_model,  \* main's local `reference_model`
    restored,         \* the archive branch of main has run to its end
    orig_eval_every,  \* config.eval_every as main received it
    workers,          \* rank -> the worker_main activation of that rank
    spawn_calls,      \* calls of mp.spawn made by main
    training,         \* the wrapped model's `training` flag
    adapter_disabled, \* the wrapped model's adapter layers are disabled
    pxPc,             \* position inside the proxy invocation
    pxName,           \* the capability reached through the proxy
    was_training,     \* the proxy's local `was_training`
    pxBefore,         \* mode and adapter state when the invocation began
    pxOutcome,        \* how the last invocation ended
    pxTrace,          \* the steps of the current / last invocation, in order
    pxCalls           \* invocations made so far

mainVars == <<config, device_count, pc, err, models, policy, reference_model,
              restored, orig_eval_every, workers, spawn_calls>>
proxyVars == <<training, adapter_disabled, pxPc, pxName, was_training,
               pxBefore, pxOutcome, pxTrace, pxCalls>>
vars == <<config, device_count, pc, err, models, policy, reference_model,
          restored, orig_eval_every, workers, spawn_calls,
          training, adapter_disabled, pxPc, pxName, was_training,
          pxBefore, pxOutcome, pxTrace, pxCalls>>

-----------------------------------------------------------------------------
(* Bounds *)

MaxDevices == 2
MaxEvalEvery == 100
MaxBatchSize == 30
MaxCalls == 2

-----------------------------------------------------------------------------
(* Configuration *)

\* Trainer variant names, as sequences of tokens so that "'FSDP' in name"
\* is a search and not a flag.
BasicTrainer == <<"Basic", "Trainer">>
FSDPTrainer == <<"FSDP", "Trainer">>
TensorParallelTrainer == <<"TensorParallel", "Trainer">>
NoSuchTrainer == <<"NoSuch", "Trainer">>
FSDPTypo == <<"FSDP", "Typo">>

TrainerNames == {BasicTrainer, FSDPTrainer, TensorParallelTrainer, NoSuchTrainer, FSDPTypo}

\* The classes the trainers module defines.
TrainerClasses == {BasicTrainer, FSDPTrainer, TensorParallelTrainer}

\* 'FSDP' in config.trainer
HasFSDP(name) == \E i \in DOMAIN name : name[i] = "FSDP"

\* Python's a % b for b # 0: the result has the sign of the divisor.
PyMod(a, b) == IF b > 0 THEN a % b ELSE -((-a) % (-b))

AdjustNoModulo(e, b) == IF PyMod(e, b) # 0 THEN e - b ELSE e

\* main's eval_every adjustment.
AdjustEvalEvery(e, b) == IF PyMod(e, b) # 0 THEN e - PyMod(e, b) ELSE e

NeedsReference(cfg) == cfg.loss_name = "dpo"

Configs(evals, batches) ==
    [trainer : TrainerNames, missing : BOOLEAN, eval_every : evals,
     batch_size : batches, lora_enabled : BOOLEAN, loss_name : {"dpo", "sft"},
     archive : {"None", "ckpt", "unreadable"}, debug : BOOLEAN,
     wandb_enabled : BOOLEAN]

-----------------------------------------------------------------------------
(* Model objects *)

NoReference == [cls |-> "NoneType", ref |-> 0]

\* transformers.AutoModelForCausalLM.from_pretrained(...)
FromPretrained == [cls |-> "AutoModelForCausalLM", weights |-> "pretrained",
                   dropout |-> TRUE, base |-> 0, adapter |-> "none"]

\* disable_dropout(model)
DisableDropout(m) == [m EXCEPT !.dropout = FALSE]

\* get_peft_model(policy, lora_config)
GetPeftModel(id) == [cls |-> "PeftModel", weights |-> "pretrained",
                     dropout |-> FALSE, base |-> id, adapter |-> "fresh"]

\* PeftModel.from_pretrained(policy, config.model.archive, is_trainable=True)
PeftFromPretrained(id) == [cls |-> "PeftModel", weights |-> "pretrained",
                           dropout |-> FALSE, base |-> id, adapter |-> "archive"]

\* model.load_state_dict(state_dict['state'])
LoadStateDict(m) == [m EXCEPT !.weights = "archive"]

\* ModelWithDisabledAdapter(policy)
ModelWithDisabledAdapter(id) == [cls |-> "ModelWithDisabledAdapter", ref |-> id]

-----------------------------------------------------------------------------
(* main *)

ProxyIdle ==
    /\ training = FALSE
    /\ adapter_disabled = FALSE
    /\ pxPc = "idle"
    /\ pxName = "none"
    /\ was_training = FALSE
    /\ pxBefore = [training |-> FALSE, adapter_disabled |-> FALSE]
    /\ pxOutcome = "none"
    /\ pxTrace = <<>>
    /\ pxCalls = 0

MainStart(cfgs, devices) ==
    /\ config \in cfgs
    /\ device_count \in devices
    /\ pc = "resolve"
    /\ err = "none"
    /\ models = <<>>
    /\ policy = 0
    /\ reference_model = NoReference
    /\ restored = FALSE
    /\ orig_eval_every = config.eval_every
    /\ workers = <<>>
    /\ spawn_calls = 0

Init ==
    /\ MainStart(Configs({100, 90}, {30}), 0..MaxDevices)
    /\ ProxyIdle

MissingKeysIgnored(cfg) == FALSE

\* if missing_keys: raise ValueError
MissingKeysRaise(cfg) == cfg.missing

\* OmegaConf.resolve / missing_keys: a missing key raises ValueError.
MainResolve ==
    /\ pc = "resolve"
    /\ IF MissingKeysRaise(config)
         THEN pc' = "error" /\ err' = "ValueError"
         ELSE pc' = "validate" /\ err' = err
    /\ UNCHANGED <<config, device_count, models, policy, reference_model,
                   restored, orig_eval_every, workers, spawn_calls>>
    /\ UNCHANGED proxyVars

\* The eval_every / batch_size check; a zero batch_size makes % raise.
MainValidate ==
    /\ pc = "validate"
    /\ IF config.batch_size = 0
         THEN /\ pc' = "error"
              /\ err' = "ZeroDivisionError"
              /\ config' = config
         ELSE /\ pc' = "build_policy"
              /\ err' = err
              /\ config' = [config EXCEPT !.eval_every =
                               AdjustEvalEvery(config.eval_every, config.batch_size)]
    /\ UNCHANGED <<device_count, models, policy, reference_model,
                   restored, orig_eval_every, workers, spawn_calls>>
    /\ UNCHANGED proxyVars

\* policy = from_pretrained(...); disable_dropout(policy)
MainBuildPolicy ==
    /\ pc = "build_policy"
    /\ models' = Append(models, DisableDropout(FromPretrained))
    /\ policy' = Len(models) + 1
    /\ pc' = "lora"
    /\ UNCHANGED <<config, device_count, err, reference_model,
                   restored, orig_eval_every, workers, spawn_calls>>
    /\ UNCHANGED proxyVars

\* if config.lora.enabled: policy = get_peft_model(policy, lora_config)
MainLora ==
    /\ pc = "lora"
    /\ IF config.lora_enabled
         THEN /\ models' = Append(models, GetPeftModel(policy))
              /\ policy' = Len(models) + 1
         ELSE UNCHANGED <<models, policy>>
    /\ pc' = "reference"
    /\ UNCHANGED <<config, device_count, err, reference_model,
                   restored, orig_eval_every, workers, spawn_calls>>
    /\ UNCHANGED proxyVars

VariantIgnoringLora(cfg) == IF NeedsReference(cfg) THEN "model" ELSE "none"

\* The branch main takes to obtain the reference model.
ReferenceVariant(cfg) ==
    IF NeedsReference(cfg)
      THEN IF cfg.lora_enabled THEN "proxy" ELSE "model"
      ELSE "none"

\* The reference model: none, the proxy over the policy, or a second model.
MainReference ==
    /\ pc = "reference"
    /\ CASE ReferenceVariant(config) = "proxy" ->
              /\ reference_model' = ModelWithDisabledAdapter(policy)
              /\ models' = models
         [] ReferenceVariant(config) = "model" ->
              /\ models' = Append(models, DisableDropout(FromPretrained))
              /\ reference_model' = [cls |-> "AutoModelForCausalLM", ref |-> Len(models) + 1]
         [] OTHER ->
              /\ reference_model' = NoReference
              /\ models' = models
    /\ pc' = "archive"
    /\ UNCHANGED <<config, device_count, err, policy,
                   restored, orig_eval_every, workers, spawn_calls>>
    /\ UNCHANGED proxyVars

KeepReference(cfg, ref, restoredPolicy) == ref

\* Adapter mode: if the loss needs a reference, a fresh proxy over the
\* restored policy.
RestoredReference(cfg, ref, restoredPolicy) ==
    IF NeedsReference(cfg) THEN ModelWithDisabledAdapter(restoredPolicy) ELSE ref

\* Full-weights mode: the models load_state_dict is called on.
StateDictTargets(cfg, pol, ref) ==
    {pol} \cup (IF NeedsReference(cfg) THEN {ref.ref} ELSE {})

\* if config.model.archive is not None: restore the checkpoint.
MainRestore ==
    /\ pc = "archive"
    /\ CASE config.archive = "None" ->
              /\ pc' = "launch"
              /\ UNCHANGED <<err, models, policy, reference_model, restored>>
         [] config.archive = "unreadable" ->
              \* torch.load raises
              /\ pc' = "error"
              /\ err' = "CheckpointError"
              /\ UNCHANGED <<models, policy, reference_model, restored>>
         [] OTHER ->
              /\ IF config.lora_enabled
                   THEN /\ models' = Append(Append(models, DisableDropout(FromPretrained)),
                                               PeftFromPretrained(Len(models) + 1))
                        /\ policy' = Len(models) + 2
                        /\ reference_model' =
                              RestoredReference(config, reference_model, Len(models) + 2)
                   ELSE /\ policy' = policy
                        /\ reference_model' = reference_model
                        /\ models' = [i \in DOMAIN models |->
                                        IF i \in StateDictTargets(config, policy, reference_model)
                                          THEN LoadStateDict(models[i])
                                          ELSE models[i]]
              /\ restored' = TRUE
              /\ pc' = "launch"
              /\ err' = err
    /\ UNCHANGED <<config, device_count, orig_eval_every, workers, spawn_calls>>
    /\ UNCHANGED proxyVars

-----------------------------------------------------------------------------
(* Launch *)

Terminal == {"done", "failed", "terminated"}

SpawnAlways(cfg, n) == [spawn |-> TRUE, ranks |-> 0..(n - 1), world_size |-> n]

SpawnFromOne(cfg, n) ==
    IF HasFSDP(cfg.trainer)
      THEN [spawn |-> TRUE, ranks |-> 1..n, world_size |-> n]
      ELSE [spawn |-> FALSE, ranks |-> {0}, world_size |-> 1]

\* The topology main launches: mp.spawn(nprocs=device_count) for an FSDP
\* trainer, else worker_main(0, 1, ...) in the calling process.
LaunchPlan(cfg, n) ==
    IF HasFSDP(cfg.trainer)
      THEN [spawn |-> TRUE, ranks |-> 0..(n - 1), world_size |-> n]
      ELSE [spawn |-> FALSE, ranks |-> {0}, world_size |-> 1]

\* A worker_main activation at its first statement, with its arguments.
NewWorker(plan, pol, ref) ==
    [pc |-> "rendezvous", world_size |-> plan.world_size, inproc |-> ~plan.spawn,
     policy |-> pol, reference_model |-> ref, noop |-> FALSE,
     error |-> "none", log |-> <<>>]

MainLaunch ==
    /\ pc = "launch"
    /\ LET plan == LaunchPlan(config, device_count)
       IN  /\ workers' = [r \in plan.ranks |-> NewWorker(plan, policy, reference_model)]
           /\ spawn_calls' = IF plan.spawn THEN spawn_calls + 1 ELSE spawn_calls
    /\ pc' = "join"
    /\ UNCHANGED <<config, device_count, err, models, policy, reference_model,
                   restored, orig_eval_every>>
    /\ UNCHANGED proxyVars

\* mp.spawn(join=True) returning or raising; or the in-process call returning
\* or letting the worker's exception through.
MainJoin ==
    /\ pc = "join"
    /\ \A r \in DOMAIN workers : workers[r].pc \in Terminal
    /\ IF \A r \in DOMAIN workers : workers[r].pc = "done"
         THEN pc' = "done" /\ err' = err
         ELSE /\ pc' = "error"
              /\ err' = IF \E r \in DOMAIN workers : workers[r].inproc
                          THEN workers[0].error
                          ELSE "ProcessRaisedException"
    /\ UNCHANGED <<config, device_count, models, policy, reference_model,
                   restored, orig_eval_every, workers, spawn_calls>>
    /\ UNCHANGED proxyVars

\* mp.spawn ends the workers still alive once one of them has failed.
SpawnTerminate(r) ==
    /\ pc = "join"
    /\ ~workers[r].inproc
    /\ workers[r].pc \notin Terminal
    /\ \E q \in DOMAIN workers : workers[q].pc = "failed"
    /\ workers' = [workers EXCEPT ![r].pc = "terminated"]
    /\ UNCHANGED <<config, device_count, pc, err, models, policy, reference_model,
                   restored, orig_eval_every, spawn_calls>>
    /\ UNCHANGED proxyVars

-----------------------------------------------------------------------------
(* worker_main *)

WorkerStep(r, w) ==
    /\ workers' = [workers EXCEPT ![r] = w]
    /\ UNCHANGED <<config, device_count, pc, err, models, policy, reference_model,
                   restored, orig_eval_every, spawn_calls>>
    /\ UNCHANGED proxyVars

Logged(w, ev) == [w EXCEPT !.log = Append(@, ev)]

\* if 'FSDP' in config.trainer
NeedsRendezvous(cfg) == HasFSDP(cfg.trainer)

\* init_distributed(rank, world_size, port) returns.
WorkerRendezvous(r) ==
    /\ workers[r].pc = "rendezvous"
    /\ WorkerStep(r, IF NeedsRendezvous(config)
                       THEN [Logged(workers[r], "rendezvous") EXCEPT !.pc = "debug"]
                       ELSE [workers[r] EXCEPT !.pc = "debug"])

\* init_distributed raises.
WorkerRendezvousFail(r) ==
    /\ workers[r].pc = "rendezvous"
    /\ NeedsRendezvous(config)
    /\ WorkerStep(r, [Logged(workers[r], "rendezvous_failed")
                        EXCEPT !.pc = "failed", !.error = "RendezvousError"])

\* if config.debug: wandb.init and wandb.log become no-ops.
WorkerDebug(r) ==
    /\ workers[r].pc = "debug"
    /\ WorkerStep(r, IF config.debug
                       THEN [Logged(workers[r], "debug_noop") EXCEPT !.pc = "wandb", !.noop = TRUE]
                       ELSE [workers[r] EXCEPT !.pc = "wandb"])

\* if rank == 0 and config.wandb.enabled
TrackerOwner(r, cfg) == r = 0 /\ cfg.wandb_enabled

WorkerWandb(r) ==
    /\ workers[r].pc = "wandb"
    /\ WorkerStep(r, IF TrackerOwner(r, config)
                       THEN [Logged(workers[r], "wandb_init") EXCEPT !.pc = "trainer"]
                       ELSE [workers[r] EXCEPT !.pc = "trainer"])

\* TrainerClass = getattr(trainers, config.trainer); trainer = TrainerClass(...)
WorkerTrainer(r) ==
    /\ workers[r].pc = "trainer"
    /\ WorkerStep(r, IF config.trainer \in TrainerClasses
                       THEN [Logged(workers[r], "trainer") EXCEPT !.pc = "train"]
                       ELSE [workers[r] EXCEPT !.pc = "failed", !.error = "AttributeError"])

AfterTrainRaisedSave == "save"

\* Where worker_main goes when trainer.train() raises.
AfterTrainRaised == "failed"

\* trainer.train() returns.
WorkerTrain(r) ==
    /\ workers[r].pc = "train"
    /\ WorkerStep(r, [Logged(workers[r], "train") EXCEPT !.pc = "save"])

\* trainer.train() raises.
WorkerTrainFail(r) ==
    /\ workers[r].pc = "train"
    /\ WorkerStep(r, [Logged(workers[r], "train_raised")
                        EXCEPT !.pc = AfterTrainRaised, !.error = "TrainError"])

\* trainer.save()
WorkerSave(r) ==
    /\ workers[r].pc = "save"
    /\ WorkerStep(r, [Logged(workers[r], "save") EXCEPT !.pc = "done"])

Next ==
    \/ MainResolve
    \/ MainValidate
    \/ MainBuildPolicy
    \/ MainLora
    \/ MainReference
    \/ MainRestore
    \/ MainLaunch
    \/ MainJoin
    \/ \E r \in DOMAIN workers : WorkerRendezvous(r)
    \/ \E r \in DOMAIN workers : WorkerRendezvousFail(r)
    \/ \E r \in DOMAIN workers : WorkerDebug(r)
    \/ \E r \in DOMAIN workers : WorkerWandb(r)
    \/ \E r \in DOMAIN workers : WorkerTrainer(r)
    \/ \E r \in DOMAIN workers : WorkerTrain(r)
    \/ \E r \in DOMAIN workers : WorkerTrainFail(r)
    \/ \E r \in DOMAIN workers : WorkerSave(r)
    \/ \E r \in DOMAIN workers : SpawnTerminate(r)

Spec == Init /\ [][Next]_vars

-----------------------------------------------------------------------------
(* Config validation alone, over a range of eval_every and batch_size *)

ValidateConfigs ==
    [trainer : {BasicTrainer}, missing : BOOLEAN,
     eval_every : (-MaxEvalEvery)..MaxEvalEvery,
     batch_size : (-MaxBatchSize)..MaxBatchSize,
     lora_enabled : {FALSE}, loss_name : {"dpo"}, archive : {"None"},
     debug : {FALSE}, wandb_enabled : {FALSE}]

ValidateInit ==
    /\ MainStart(ValidateConfigs, {1})
    /\ ProxyIdle

ValidateNext ==
    \/ MainResolve
    \/ MainValidate

ValidateSpec == ValidateInit /\ [][ValidateNext]_vars

-----------------------------------------------------------------------------
(* ModelWithDisabledAdapter *)

\* Attributes of the wrapped model for which callable(attr) holds.
Callables == {"forward", "generate", "train", "eval"}

NonCallables == {"training", "config"}

SkipEval(t) == t

\* model.eval()
ModelEval(t) == FALSE

\* model.train()
ModelTrain(t) == TRUE

\* Leaving `with model.disable_adapter()`: the adapter layers are enabled.
AdapterAfterExit(d) == FALSE

\* The wrapped capability's own effect on the training flag.
BodyEffect(name, t) ==
    CASE name = "train" -> ModelTrain(t)
      [] name = "eval" -> ModelEval(t)
      [] OTHER -> t

ProxyStep ==
    UNCHANGED mainVars

Begin(name) ==
    /\ pxName' = name
    /\ pxBefore' = [training |-> training, adapter_disabled |-> adapter_disabled]
    /\ pxOutcome' = "none"
    /\ pxTrace' = <<>>

\* __getattribute__(name): a callable attribute is wrapped in newfunc, any
\* other attribute is returned as it is.
ProxyGetAttribute(name) ==
    /\ pxPc = "idle"
    /\ pxCalls < MaxCalls
    /\ IF name \in Callables
         THEN /\ pxPc' = "newfunc"
              /\ pxName' = name
              /\ UNCHANGED <<pxBefore, pxOutcome, pxTrace, pxCalls>>
         ELSE /\ Begin(name)
              /\ pxPc' = "idle"
              /\ pxCalls' = pxCalls + 1
    /\ UNCHANGED <<training, adapter_disabled, was_training>>
    /\ ProxyStep

\* The caller invokes the newfunc it got.
ProxyInvoke ==
    /\ pxPc = "newfunc"
    /\ Begin(pxName)
    /\ pxPc' = "record"
    /\ UNCHANGED <<training, adapter_disabled, was_training, pxCalls>>
    /\ ProxyStep

\* proxy(*args, **kwargs)
ProxyCall ==
    /\ pxPc = "idle"
    /\ pxCalls < MaxCalls
    /\ Begin("__call__")
    /\ pxPc' = "record"
    /\ UNCHANGED <<training, adapter_disabled, was_training, pxCalls>>
    /\ ProxyStep

\* was_training = model.training
ProxyRecord ==
    /\ pxPc = "record"
    /\ was_training' = training
    /\ pxTrace' = Append(pxTrace, "record")
    /\ pxPc' = "eval"
    /\ UNCHANGED <<training, adapter_disabled, pxName, pxBefore, pxOutcome, pxCalls>>
    /\ ProxyStep

\* model.eval()
ProxyEval ==
    /\ pxPc = "eval"
    /\ training' = ModelEval(training)
    /\ pxTrace' = Append(pxTrace, "eval")
    /\ pxPc' = "enter"
    /\ UNCHANGED <<adapter_disabled, was_training, pxName, pxBefore, pxOutcome, pxCalls>>
    /\ ProxyStep

\* with model.disable_adapter(): entering
ProxyEnter ==
    /\ pxPc = "enter"
    /\ adapter_disabled' = TRUE
    /\ pxTrace' = Append(pxTrace, "enter")
    /\ pxPc' = "body"
    /\ UNCHANGED <<training, was_training, pxName, pxBefore, pxOutcome, pxCalls>>
    /\ ProxyStep

\* result = attr(*args, **kwargs) returns.
ProxyBodyReturn ==
    /\ pxPc = "body"
    /\ training' = BodyEffect(pxName, training)
    /\ pxTrace' = Append(pxTrace, "execute")
    /\ pxPc' = "exit"
    /\ UNCHANGED <<adapter_disabled, was_training, pxName, pxBefore, pxOutcome, pxCalls>>
    /\ ProxyStep

\* attr(*args, **kwargs) raises, before or after its own effect on the mode.
ProxyBodyRaise ==
    /\ pxPc = "body"
    /\ \E applied \in BOOLEAN :
          training' = IF applied THEN BodyEffect(pxName, training) ELSE training
    /\ pxTrace' = Append(pxTrace, "execute")
    /\ pxPc' = "exit_raising"
    /\ UNCHANGED <<adapter_disabled, was_training, pxName, pxBefore, pxOutcome, pxCalls>>
    /\ ProxyStep

\* Leaving the with block after the body returned.
ProxyExit ==
    /\ pxPc = "exit"
    /\ adapter_disabled' = AdapterAfterExit(adapter_disabled)
    /\ pxTrace' = Append(pxTrace, "exit")
    /\ pxPc' = "restore"
    /\ UNCHANGED <<training, was_training, pxName, pxBefore, pxOutcome, pxCalls>>
    /\ ProxyStep

\* Leaving the with block on the exception, which then leaves the proxy: the
\* statements after the with block do not run.
ProxyExitRaising ==
    /\ pxPc = "exit_raising"
    /\ adapter_disabled' = AdapterAfterExit(adapter_disabled)
    /\ pxTrace' = Append(pxTrace, "exit")
    /\ pxPc' = "idle"
    /\ pxOutcome' = "raised"
    /\ pxCalls' = pxCalls + 1
    /\ UNCHANGED <<training, was_training, pxName, pxBefore>>
    /\ ProxyStep

\* if was_training: model.train(); return result
ProxyRestore ==
    /\ pxPc = "restore"
    /\ IF was_training
         THEN /\ training' = ModelTrain(training)
              /\ pxTrace' = Append(pxTrace, "restore")
         ELSE UNCHANGED <<training, pxTrace>>
    /\ pxPc' = "idle"
    /\ pxOutcome' = "returned"
    /\ pxCalls' = pxCalls + 1
    /\ UNCHANGED <<adapter_disabled, was_training, pxName, pxBefore>>
    /\ ProxyStep

\* The proxy main builds over the adapter-augmented policy, the wrapped model
\* in either mode.
ProxyInit ==
    /\ MainStart([trainer : {BasicTrainer}, missing : {FALSE}, eval_every : {90},
                  batch_size : {30}, lora_enabled : {TRUE}, loss_name : {"dpo"},
                  archive : {"None"}, debug : {FALSE}, wandb_enabled : {FALSE}], {1})
    /\ training \in BOOLEAN
    /\ adapter_disabled = FALSE
    /\ pxPc = "idle"
    /\ pxName = "none"
    /\ was_training = FALSE
    /\ pxBefore = [training |-> training, adapter_disabled |-> FALSE]
    /\ pxOutcome = "none"
    /\ pxTrace = <<>>
    /\ pxCalls = 0

ProxyNext ==
    \/ \E name \in Callables \cup NonCallables : ProxyGetAttribute(name)
    \/ ProxyInvoke
    \/ ProxyCall
    \/ ProxyRecord
    \/ ProxyEval
    \/ ProxyEnter
    \/ ProxyBodyReturn
    \/ ProxyBodyRaise
    \/ ProxyExit
    \/ ProxyExitRaising
    \/ ProxyRestore

ProxySpec == ProxyInit /\ [][ProxyNext]_vars

-----------------------------------------------------------------------------
(* Properties *)

Range(f) == {f[i] : i \in DOMAIN f}

IsPrefix(a, b) == Len(a) <= Len(b) /\ \A i \in DOMAIN a : a[i] = b[i]

Launched == pc = "join" \/ workers # <<>> \/ spawn_calls > 0

\* C1: after an invocation through the proxy has returned, the wrapped
\* model's training flag equals its value before the invocation, whatever
\* capability was invoked (train and eval included) and whatever the flag was.
C1_ModeUnchangedAfterReturn ==
    (pxPc = "idle" /\ pxOutcome = "returned") => training = pxBefore.training

\* C2 as stated: for every integer eval_every and batch_size with
\* eval_every % batch_size # 0, the adjusted eval_every is a multiple of
\* batch_size, is at most the original, and validating again changes nothing.
C2_AdjustedForEveryBatchSize ==
    (pc = "build_policy" /\ PyMod(orig_eval_every, config.batch_size) # 0) =>
        /\ PyMod(config.eval_every, config.batch_size) = 0
        /\ config.eval_every <= orig_eval_every
        /\ AdjustEvalEvery(config.eval_every, config.batch_size) = config.eval_every

\* C2 amended: the same for every integer eval_every and every positive
\* batch_size; eval_every = 100 with batch_size = 30 gives 90.
C2_AdjustedForPositiveBatchSize ==
    (pc = "build_policy" /\ config.batch_size > 0
       /\ PyMod(orig_eval_every, config.batch_size) # 0) =>
        /\ PyMod(config.eval_every, config.batch_size) = 0
        /\ config.eval_every <= orig_eval_every
        /\ AdjustEvalEvery(config.eval_every, config.batch_size) = config.eval_every
        /\ (orig_eval_every = 100 /\ config.batch_size = 30) => config.eval_every = 90

C2_Witness ==
    /\ pc = "build_policy"
    /\ orig_eval_every = 100
    /\ config.batch_size = 30
    /\ config.eval_every = 90

\* The decision table of the reference model, for a policy and a reference.
DecisionTable(pol, ref) ==
    /\ ~NeedsReference(config) => ref = NoReference
    /\ (NeedsReference(config) /\ config.lora_enabled) =>
          /\ ref = ModelWithDisabledAdapter(pol)
          /\ models[pol].cls = "PeftModel"
          \* every loaded model is the base of an adapter-augmented policy
          /\ \A i \in DOMAIN models :
                models[i].cls = "AutoModelForCausalLM" =>
                    \E j \in DOMAIN models : models[j].base = i
    /\ (NeedsReference(config) /\ ~config.lora_enabled) =>
          /\ ref.cls = "AutoModelForCausalLM"
          /\ ref.ref \in DOMAIN models
          /\ ref.ref # pol
          /\ models[ref.ref].cls = "AutoModelForCausalLM"
          /\ models[ref.ref].base = 0
          /\ models[ref.ref].dropout = FALSE

\* C3: once chosen, and in every worker, the reference model is the variant
\* of the decision table: none if the loss needs no reference, the proxy
\* over the policy if adapters are enabled, a separately loaded model with
\* dropout disabled otherwise; restoring a checkpoint does not change it.
C3_ReferenceVariant ==
    /\ pc \in {"archive", "launch", "join", "done"} => DecisionTable(policy, reference_model)
    /\ \A r \in DOMAIN workers :
          DecisionTable(workers[r].policy, workers[r].reference_model)

C3_Witness ==
    /\ restored
    /\ config.lora_enabled
    /\ NeedsReference(config)
    /\ \E r \in DOMAIN workers :
          workers[r].reference_model = ModelWithDisabledAdapter(workers[r].policy)

\* C4: with a trainer whose name does not contain FSDP, the only worker is
\* rank 0 with world_size 1, run in the calling process; mp.spawn is never
\* called and no worker attempts init_distributed.
C4_SingleWorker ==
    ~HasFSDP(config.trainer) =>
        /\ spawn_calls = 0
        /\ DOMAIN workers \subseteq {0}
        /\ Launched => DOMAIN workers = {0}
        /\ \A r \in DOMAIN workers :
              /\ workers[r].world_size = 1
              /\ workers[r].inproc
              /\ workers[r].pc # "terminated"
              /\ Range(workers[r].log) \cap {"rendezvous", "rendezvous_failed"} = {}

C4_Witness ==
    /\ ~HasFSDP(config.trainer)
    /\ pc = "done"
    /\ DOMAIN workers = {0}
    /\ workers[0].log = <<"debug_noop", "wandb_init", "trainer", "train", "save">>

\* C5: with a trainer whose name contains FSDP and device_count = n, the
\* workers launched are exactly the ranks 0..n-1, each with world_size n;
\* main ends only when every worker has ended, and ends without an error
\* only if every worker ended without one.
C5_SpawnedWorkers ==
    (HasFSDP(config.trainer) /\ Launched) =>
        /\ spawn_calls = 1
        /\ DOMAIN workers = 0..(device_count - 1)
        /\ Cardinality(DOMAIN workers) = device_count
        /\ \A r \in DOMAIN workers :
              workers[r].world_size = device_count /\ ~workers[r].inproc
        /\ pc \in {"done", "error"} => \A r \in DOMAIN workers : workers[r].pc \in Terminal
        /\ pc = "done" => \A r \in DOMAIN workers : workers[r].pc = "done"

C5_Witness ==
    /\ HasFSDP(config.trainer)
    /\ device_count >= 2
    /\ pc = "done"
    /\ \A r \in 0..(device_count - 1) : workers[r].pc = "done"

ConfigErrorRaised ==
    \/ err = "ValueError"
    \/ \E r \in DOMAIN workers : workers[r].error = "AttributeError"

NothingStarted ==
    /\ models = <<>>
    /\ workers = <<>>
    /\ spawn_calls = 0

\* C6 as stated: whenever a configuration error (missing key, unknown
\* trainer name) has been raised, no model has been loaded and no worker
\* has been started.
C6_ConfigErrorBeforeAnything ==
    ConfigErrorRaised => NothingStarted

\* C6 amended: a missing key is fatal and raised before any model is loaded
\* or worker started; an unknown trainer name is fatal too, but is raised in
\* the worker, after the models are built and the worker has started, and
\* then no trainer is constructed and train() and save() never run there;
\* main can end without an error only if no worker was launched at all.
C6_MissingKeyFirstUnknownTrainerInWorker ==
    /\ config.missing => (NothingStarted /\ pc \in {"resolve", "error"})
    /\ err = "ValueError" => (config.missing /\ pc = "error")
    /\ config.trainer \notin TrainerClasses =>
          /\ pc = "done" => workers = <<>>
          /\ \A r \in DOMAIN workers : workers[r].pc \notin {"train", "save", "done"}
    /\ \A r \in DOMAIN workers :
          workers[r].error = "AttributeError" =>
              /\ config.trainer \notin TrainerClasses
              /\ workers[r].pc = "failed"
              /\ models # <<>>
              /\ Range(workers[r].log) \cap {"trainer", "train", "train_raised", "save"} = {}

C6_Witness ==
    /\ pc = "error"
    /\ \E r \in DOMAIN workers :
          /\ workers[r].error = "AttributeError"
          /\ "rendezvous" \in Range(workers[r].log)
          /\ "wandb_init" \in Range(workers[r].log)

\* C7: when the capability invoked through the proxy raises and the wrapped
\* model was in training mode before, the model is in training mode again,
\* and the adapter state is what it was, once the exception has left the proxy.
C7_ModeRestoredOnRaise ==
    (pxPc = "idle" /\ pxOutcome = "raised" /\ pxBefore.training) =>
        /\ training
        /\ adapter_disabled = pxBefore.adapter_disabled

FullSequence == <<"record", "eval", "enter", "execute", "exit", "restore">>

\* C8: the steps of an invocation happen in the order record, eval, enter,
\* execute, exit, restore (restore only if training was recorded); the
\* capability executes with the model in evaluation mode and the adapter
\* disabled; after a return the adapter state is what it was before; reading
\* a non-callable attribute changes neither the mode nor the adapter state.
C8_StepOrder ==
    /\ IsPrefix(pxTrace, FullSequence)
    /\ pxPc = "body" => (~training /\ adapter_disabled /\ pxTrace = SubSeq(FullSequence, 1, 3))
    /\ "execute" \in Range(pxTrace) => SubSeq(pxTrace, 1, 3) = SubSeq(FullSequence, 1, 3)
    /\ (pxPc = "idle" /\ pxOutcome = "returned") =>
          /\ adapter_disabled = pxBefore.adapter_disabled
          /\ pxTrace = IF pxBefore.training THEN FullSequence ELSE SubSeq(FullSequence, 1, 5)
    /\ (pxPc = "idle" /\ pxName \in NonCallables) =>
          /\ training = pxBefore.training
          /\ adapter_disabled = pxBefore.adapter_disabled
          /\ pxTrace = <<>>

C8_Witness ==
    /\ pxPc = "idle"
    /\ pxOutcome = "returned"
    /\ pxName = "forward"
    /\ pxBefore.training
    /\ pxTrace = FullSequence

\* The place of each event in worker_main.
Place(ev) ==
    CASE ev \in {"rendezvous", "rendezvous_failed"} -> 1
      [] ev = "debug_noop" -> 2
      [] ev = "wandb_init" -> 3
      [] ev = "trainer" -> 4
      [] ev \in {"train", "train_raised"} -> 5
      [] ev = "save" -> 6

\* C9: in every worker the events happen in the order rendezvous (FSDP only,
\* once), debug substitution, tracker initialization (rank 0 with tracking
\* enabled only), trainer construction, train(), save(); save() happens at
\* most once and only after train() returned; after a failed rendezvous or a
\* failed train() nothing more happens in that worker.
C9_WorkerOrder ==
    \A r \in DOMAIN workers :
        LET log == workers[r].log
            evs == Range(log)
        IN  /\ \A i, j \in DOMAIN log : i < j => Place(log[i]) < Place(log[j])
            /\ (evs \cap {"rendezvous", "rendezvous_failed"} # {}) => HasFSDP(config.trainer)
            /\ (HasFSDP(config.trainer) /\ evs # {}) =>
                  log[1] \in {"rendezvous", "rendezvous_failed"}
            /\ "debug_noop" \in evs => config.debug
            /\ "wandb_init" \in evs => (r = 0 /\ config.wandb_enabled)
            /\ "train" \in evs => "trainer" \in evs
            /\ "save" \in evs => "train" \in evs
            /\ "rendezvous_failed" \in evs =>
                  (log[Len(log)] = "rendezvous_failed" /\ workers[r].pc = "failed")
            /\ "train_raised" \in evs =>
                  (log[Len(log)] = "train_raised" /\ workers[r].pc = "failed")
            /\ workers[r].pc = "done" => log[Len(log)] = "save"

C9_Witness ==
    /\ 1 \in DOMAIN workers
    /\ workers[0].log = <<"rendezvous", "debug_noop", "wandb_init", "trainer", "train", "save">>
    /\ workers[1].log = <<"rendezvous", "debug_noop", "trainer", "train_raised">>

\* C10: with a checkpoint archive, every worker is launched after the
\* restoration; with adapters its policy is the rebuilt policy carrying the
\* archive's adapter and its reference (if the loss needs one) is the proxy
\* over that very policy; without adapters the archive's weights are in its
\* policy and in its reference if there is one, and there is none if the
\* loss needs none.
C10_RestoredBeforeLaunch ==
    (config.archive # "None" /\ Launched) =>
        /\ restored
        /\ \A r \in DOMAIN workers :
              LET w == workers[r]
              IN  /\ w.policy = policy
                  /\ w.reference_model = reference_model
                  /\ config.lora_enabled =>
                        /\ models[w.policy].adapter = "archive"
                        /\ w.policy = Len(models)
                        /\ models[models[w.policy].base].dropout = FALSE
                        /\ NeedsReference(config) =>
                              w.reference_model = ModelWithDisabledAdapter(w.policy)
                        /\ ~NeedsReference(config) => w.reference_model = NoReference
                  /\ ~config.lora_enabled =>
                        /\ models[w.policy].weights = "archive"
                        /\ NeedsReference(config) =>
                              models[w.reference_model.ref].weights = "archive"
                        /\ ~NeedsReference(config) =>
                              /\ w.reference_model = NoReference
                              /\ Len(models) = 1

C10_Witness ==
    /\ config.archive = "ckpt"
    /\ config.lora_enabled
    /\ NeedsReference(config)
    /\ \E r \in DOMAIN workers :
          /\ workers[r].reference_model = ModelWithDisabledAdapter(Len(models))
          /\ workers[r].pc = "done"

====
